---- MODULE Spec2Model ----
(***************************************************************************)
(* Scheduling and polling engine of the handball.net WhatsApp live ticker. *)
(*                                                                         *)
(* The program is a single Node.js process: every handler runs to its next *)
(* await without interruption, and the continuation after an await is a    *)
(* separate step.  One action of this module is one such run-to-await.     *)
(* Ticker state objects are JavaScript objects with identity: a worker, a  *)
(* timer callback or a pending send keeps the object it captured even when *)
(* the Map entry of the chat was deleted or replaced.  The heap `tickers`  *)
(* holds the objects; `activeTickers` maps a chat to an object id.         *)
(***************************************************************************)
EXTENDS Integers, Sequences, FiniteSets, Bags, TLC

(***************************** bounds **************************************)
\* commands the users issue in one run
MaxCmds == 3
\* ticker objects alive at the same time
MaxObjs == 2
\* jobs waiting in jobQueue
MaxQueue == 6
\* runWorker invocations suspended at the same time (all scenarios but the worker pool)
MaxInFlight == 2
\* timer-triggered recap flushes awaiting delivery at the same time
MaxFlushes == 1
\* commands of the recap scenario
MaxRecapCmds == 1
\* !autoschedule commands of the auto-schedule scenario
MaxAutoCmds == 2
\* !start commands of the live-delivery scenario
MaxLiveCmds == 1

(************************* program constants *******************************)
MAX_WORKERS == 5
PRE_GAME_START_MINUTES == 5
RECAP_INTERVAL_MINUTES == 5
FULL_TIME_MINUTE == 30

(***************************** universe ************************************)
Chats == {"c1", "c2"}
Games == {"g1", "g2"}
NoGame == "none"
Modes == {"live", "recap"}
ObjIds == 1..MaxObjs
Nil == 0
\* the team page given to !autoschedule
TeamUrl == "team"
\* gameSummary.startsAt of a game, in minutes of the model's time scale
StartsAt(g) == IF g = "g1" THEN 100 ELSE 200
\* scheduled_tickers.json without an entry for a chat
NoEntry == [gameId |-> NoGame]

\* The provider's feed of a game, oldest first.  An occurrence is known by
\* its identifier; EvType and EvMinute give the fields the engine reads:
\* g1 has a goal, the half-time whistle, a goal and the final whistle, g2
\* only the final whistle.
Feed(g) == IF g = "g1" THEN <<1, 2, 3, 4>> ELSE <<5>>
EventIds == {1, 2, 3, 4, 5}
FeedLens == {0, 1, 2, 3, 4}
EvType(e) == CASE e = 1 -> "Goal"
               [] e = 2 -> "StopPeriod"
               [] e = 3 -> "Goal"
               [] e = 4 -> "StopPeriod"
               [] e = 5 -> "StopPeriod"
EvMinute(e) == CASE e = 1 -> 10
                 [] e = 2 -> 30
                 [] e = 3 -> 40
                 [] e = 4 -> 60
                 [] e = 5 -> 60

VARIABLES
    activeTickers,   \* Map chatId -> ticker object (Nil: no entry)
    mapOrder,        \* insertion order of the Map's keys
    tickers,         \* heap of ticker objects
    jobQueue,        \* queue of jobs
    activeWorkers,   \* worker counter of the dispatcher
    lastPolledIndex, \* cursor of masterScheduler
    workers,         \* runWorker invocations suspended at an await (bag)
    replies,         \* !start handlers (chat, game of the URL) whose send will throw
    autos,           \* autoScheduleNextGame calls awaiting the team page
    activations,     \* beginActualPolling calls awaiting the legend send
    flushes,         \* timer-triggered sendRecapMessage calls awaiting delivery
    cleanups,        \* armed 30 s cleanup timers of concluded games
    timeouts,        \* armed deferred-activation timers per chat
    intervals,       \* armed recap interval timers per chat
    published,       \* provider: occurrences published so far per game
    seenFile,        \* seen_tickers.json
    scheduleFile,    \* scheduled_tickers.json: the entry of each chat (or NoEntry)
    ncmd,            \* commands issued so far
    stopped,         \* history: "stop"/"reset" when that was the chat's last command
    lastCmd,         \* history: the command handled last and its chat
    waited           \* history: scheduler passes a polling chat was not served

vars == <<activeTickers, mapOrder, tickers, jobQueue, activeWorkers,
          lastPolledIndex, workers, replies, autos, activations, flushes,
          cleanups, timeouts, intervals, published, seenFile, scheduleFile,
          ncmd, stopped, lastCmd, waited>>

(************************** ticker objects *********************************)
\* A slot of the heap that holds no object.
FreeObj ==
    [chatId |-> "none", isScheduling |-> FALSE, isScheduled |-> FALSE,
     isPolling |-> FALSE, mode |-> "live", isAutoSchedule |-> FALSE,
     gameId |-> NoGame, seen |-> {}, recapEvents |-> <<>>,
     recapMinuteCounter |-> 0, lastUpdatedAt |-> 0,
     teamPageUrl |-> "none",
     scheduleTimeout |-> "none", timeoutAt |-> 0, recapIntervalId |-> "none",
     sentLive |-> <<>>, pushed |-> {}, recapSent |-> <<>>]

\* `{ seen: new Set() }` of chat c: every other field undefined (falsy).
\* chatId is the key the object is stored under; sentLive, pushed and
\* recapSent are history fields (the live sends invoked, the occurrences
\* appended to recapEvents, the occurrences of delivered recap messages).
NewTicker(c) == [FreeObj EXCEPT !.chatId = c]

\* The objects something still refers to.
Live ==
    ({activeTickers[c] : c \in Chats}
       \cup {w.obj : w \in BagToSet(workers)}
       \cup {w.fobj : w \in BagToSet(workers)}
       \cup {a.obj : a \in BagToSet(activations)}
       \cup {f.obj : f \in BagToSet(flushes)}
       \cup {k.obj : k \in BagToSet(cleanups)}) \ {Nil}

\* An id for `new`: the least slot nothing refers to.
FreeIds == {o \in ObjIds : tickers[o].chatId = "none"}
NewId == CHOOSE o \in FreeIds : \A p \in FreeIds : o <= p

\* The heap after a step: objects nothing refers to any more are dropped.
Heap(T) == tickers' = [o \in ObjIds |-> IF o \in Live' THEN T[o] ELSE FreeObj]

(***************************** helpers *************************************)
Reverse(s) == [i \in 1..Len(s) |-> s[Len(s) + 1 - i]]
SeqToSet(s) == {s[i] : i \in 1..Len(s)}
RemoveAt(s, i) == SubSeq(s, 1, i - 1) \o SubSeq(s, i + 1, Len(s))
One(x) == SetToBag({x})
Count(s, e) == Cardinality({i \in 1..Len(s) : s[i] = e})

\* jobQueue.findIndex(job => job.chatId === chatId), 0 when none
FindIndex(q, c) ==
    IF \E i \in 1..Len(q) : q[i].chatId = c
    THEN CHOOSE i \in 1..Len(q) : q[i].chatId = c /\ \A j \in 1..(i - 1) : q[j].chatId # c
    ELSE 0

\* const index = jobQueue.findIndex(...); if (index > -1) jobQueue.splice(index, 1);
SpliceFirst(q, c) == IF FindIndex(q, c) = 0 THEN q ELSE RemoveAt(q, FindIndex(q, c))

\* jobQueue.some(job => job.chatId === chatId && job.type === 'poll')
HasPollJob(q, c) == \E i \in 1..Len(q) : q[i].chatId = c /\ q[i].type = "poll"

\* Map.delete(chatId) on the key order
OrderDelete(ord, c) == SelectSeq(ord, LAMBDA x : x # c)
\* Map.set(chatId, ...) on the key order
OrderSet(ord, c) == IF c \in SeqToSet(ord) THEN ord ELSE Append(ord, c)

\* [...tickerState.seen]: the members of the Set as an array.  The model
\* keeps a seen-set without its insertion order; the array lists the ids in
\* ascending order, the order in which the feed delivers them.
RECURSIVE SpreadArray(_)
SpreadArray(s) ==
    IF s = {} THEN <<>>
    ELSE LET m == CHOOSE x \in s : \A y \in s : x <= y
         IN <<m>> \o SpreadArray(s \ {m})

\* a Set built from all elements of the array but the first
NewSetSkipsFirst(a) == {a[i] : i \in 2..Len(a)}

\* new Set(seenArray)
NewSet(a) == {a[i] : i \in 1..Len(a)}

\* saveSeenTickers(activeTickers, path): the whole file is rewritten from the
\* Map, one array per chat (a key that is absent has the first component FALSE)
SeenSnapshot(at, T) ==
    [c \in Chats |-> IF at[c] = Nil THEN <<FALSE, <<>>>>
                     ELSE <<TRUE, SpreadArray(T[at[c]].seen)>>]

Init ==
    /\ activeTickers = [c \in Chats |-> Nil]
    /\ mapOrder = <<>>
    /\ tickers = [o \in ObjIds |-> FreeObj]
    /\ jobQueue = <<>>
    /\ activeWorkers = 0
    /\ lastPolledIndex = -1
    /\ workers = EmptyBag
    /\ replies = EmptyBag
    /\ autos = EmptyBag
    /\ activations = EmptyBag
    /\ flushes = EmptyBag
    /\ cleanups = EmptyBag
    /\ timeouts = [c \in Chats |-> 0]
    /\ intervals = [c \in Chats |-> 0]
    /\ published = [g \in Games |-> 0]
    /\ seenFile = [c \in Chats |-> <<FALSE, <<>>>>]
    /\ scheduleFile = [c \in Chats |-> NoEntry]
    /\ ncmd = 0
    /\ stopped = [c \in Chats |-> "no"]
    /\ lastCmd = [cmd |-> "none", chatId |-> "none", late |-> {}]
    /\ waited = [c \in Chats |-> 0]

(************************ the mutable program state ************************)
\* The state the handlers read and write, as one record, so that the
\* functions of polling.js and app.js can be written as operators from state
\* to state and composed the way the code calls them.
Cur ==
    [at |-> activeTickers, ord |-> mapOrder, T |-> tickers, Q |-> jobQueue,
     aw |-> activeWorkers, lpi |-> lastPolledIndex, W |-> workers,
     rep |-> replies, au |-> autos, act |-> activations, fl |-> flushes,
     cl |-> cleanups, tmo |-> timeouts, ivl |-> intervals,
     seenf |-> seenFile, sf |-> scheduleFile, wt |-> waited]

\* Array.from(activeTickers.values()).filter(t => t.isPolling), as chat ids
PollingTickers(S) == SelectSeq(S.ord, LAMBDA c : S.T[S.at[c]].isPolling)

Commit(S) ==
    /\ activeTickers' = S.at
    /\ mapOrder' = S.ord
    /\ jobQueue' = S.Q
    /\ activeWorkers' = S.aw
    /\ lastPolledIndex' = S.lpi
    /\ workers' = S.W
    /\ replies' = S.rep
    /\ autos' = S.au
    /\ activations' = S.act
    /\ flushes' = S.fl
    /\ cleanups' = S.cl
    /\ timeouts' = S.tmo
    /\ intervals' = S.ivl
    /\ seenFile' = S.seenf
    /\ scheduleFile' = S.sf
    /\ waited' = IF PollingTickers(S) = PollingTickers(Cur)
                 THEN S.wt ELSE [c \in Chats |-> 0]
    /\ Heap(S.T)

(******************************* timers ************************************)
\* A timer handle is kept in a field of the ticker object: "none" (never
\* set), "armed" (the handle of a timer that is still armed) or "dead" (the
\* handle of a timer that fired or was cleared; still truthy).  timeouts[c]
\* and intervals[c] count the armed timers whose callback names chat c; a
\* timer whose handle was overwritten or whose object is gone stays armed
\* and can no longer be cleared.

\* clearTimeout(tickerState.scheduleTimeout)
ClearTimeout(S, o) ==
    IF S.T[o].scheduleTimeout = "armed"
    THEN [S EXCEPT !.T[o].scheduleTimeout = "dead", !.tmo[S.T[o].chatId] = @ - 1]
    ELSE S

\* tickerState.scheduleTimeout = setTimeout(() => beginActualPolling(chatId), delay)
\* with delay = startTime - Date.now(): the timer fires at startTime.
SetTimeout(S, o, c, startTime) ==
    [S EXCEPT !.T[o].scheduleTimeout = "armed", !.T[o].timeoutAt = startTime,
              !.tmo[c] = @ + 1]

\* clearInterval(tickerState.recapIntervalId)
ClearInterval(S, o) ==
    IF S.T[o].recapIntervalId = "armed"
    THEN [S EXCEPT !.T[o].recapIntervalId = "dead", !.ivl[S.T[o].chatId] = @ - 1]
    ELSE S

\* tickerState.recapIntervalId = setInterval(() => sendRecapMessage(chatId, false, null), ...)
SetInterval(S, o, c) ==
    [S EXCEPT !.T[o].recapIntervalId = "armed", !.ivl[c] = @ + 1]

(*********************** queueTickerScheduling *****************************)
IsGameId(g) == g \in Games

\* The object queueTickerScheduling works on: activeTickers.get(chatId) || { seen: new Set() }
SchedulingObj(S, c) == IF S.at[c] # Nil THEN S.at[c] ELSE NewId

\* queueTickerScheduling for a URL that yields game id g (the sends apart)
QueueTickerScheduling(S, c, g, mode, isAuto) ==
    LET o == SchedulingObj(S, c)
        base == IF S.at[c] # Nil THEN S.T[o] ELSE NewTicker(c)
        t == [base EXCEPT !.isPolling = FALSE, !.isScheduling = TRUE,
                          !.gameId = g, !.mode = mode, !.recapEvents = <<>>,
                          !.isAutoSchedule = isAuto,
                          !.teamPageUrl = IF isAuto THEN TeamUrl ELSE "none"]
    IN [S EXCEPT !.T[o] = t, !.at[c] = o, !.ord = OrderSet(S.ord, c),
                 !.Q = Append(S.Q, [type |-> "schedule", chatId |-> c, gameId |-> g])]

\* Room for what queueTickerScheduling allocates (bounds of the model).
RoomToSchedule(c) ==
    /\ Len(jobQueue) < MaxQueue
    /\ activeTickers[c] = Nil => FreeIds # {}

(****************************** commands ***********************************)
\* The guard of !start and !autoschedule (app.js): reject when the chat's
\* ticker is polling or scheduled.
Rejects(S, c) ==
    S.at[c] # Nil /\ (S.T[S.at[c]].isPolling \/ S.T[S.at[c]].isScheduled)

\* !start <url> [recap]; g is what getGameIdFromUrl makes of the URL.
\* The handler runs up to the send it awaits inside queueTickerScheduling
\* (the error text for a URL without game id, else the acknowledgement).
\* Nothing follows a send that succeeds, so only a send that is going to
\* throw (ok = FALSE) is kept as a pending call.  A rejected command only
\* replies.
StartState(S, c, g, mode, ok) ==
    IF Rejects(S, c) THEN S
    ELSE LET S1 == IF IsGameId(g) THEN QueueTickerScheduling(S, c, g, mode, FALSE) ELSE S
         IN IF ok THEN S1
            ELSE [S1 EXCEPT !.rep = @ (+) One([chatId |-> c, gameId |-> g])]

StartCmd(c, g, mode, ok) ==
    /\ ncmd < MaxCmds
    /\ ncmd' = ncmd + 1
    /\ lastCmd' = [cmd |-> "start", chatId |-> c, late |-> {}]
    /\ stopped' = [stopped EXCEPT ![c] = "no"]
    /\ UNCHANGED published
    /\ ~Rejects(Cur, c) /\ IsGameId(g) => RoomToSchedule(c)
    /\ Commit(StartState(Cur, c, g, mode, ok))

\* The send of !start throws: the handler's catch deletes the chat's entry
\* (app.js 129-133).
StartReplyFailed(r) ==
    /\ BagIn(r, replies)
    /\ UNCHANGED <<published, ncmd, stopped, lastCmd>>
    /\ Commit([Cur EXCEPT !.rep = @ (-) One(r), !.at[r.chatId] = Nil,
                          !.ord = OrderDelete(mapOrder, r.chatId)])

\* !stop (app.js 136-172)
StopState(S, c) ==
    LET o == S.at[c] IN
    IF o = Nil THEN S
    ELSE LET S1 == [S EXCEPT !.T[o].isAutoSchedule = FALSE]
             S2 == IF S1.T[o].isScheduled /\ S1.T[o].scheduleTimeout # "none"
                   THEN [ClearTimeout(S1, o) EXCEPT !.T[o].isScheduled = FALSE,
                                                    !.sf[c] = NoEntry]
                   ELSE S1
             S3 == IF S2.T[o].isPolling
                   THEN [ClearInterval(S2, o) EXCEPT !.T[o].isPolling = FALSE]
                   ELSE S2
         IN [S3 EXCEPT !.Q = SpliceFirst(S3.Q, c)]

StopCmd(c) ==
    /\ ncmd < MaxCmds
    /\ ncmd' = ncmd + 1
    /\ lastCmd' = [cmd |-> "stop", chatId |-> c, late |-> {}]
    /\ stopped' = [stopped EXCEPT ![c] = "stop"]
    /\ UNCHANGED published
    /\ Commit(StopState(Cur, c))

\* a reset that leaves the persisted files alone
ResetStateKeepsFiles(S, c) ==
    LET o == S.at[c]
        S1 == IF o = Nil THEN S
              ELSE LET A == ClearInterval(ClearTimeout(S, o), o)
                   IN [A EXCEPT !.T[o].isPolling = FALSE,
                                !.T[o].isScheduled = FALSE,
                                !.Q = SpliceFirst(A.Q, c)]
    IN [S1 EXCEPT !.at[c] = Nil, !.ord = OrderDelete(S1.ord, c)]

\* !reset (app.js 174-197)
ResetState(S, c) ==
    LET o == S.at[c]
        S1 == IF o = Nil THEN S
              ELSE LET A == ClearInterval(ClearTimeout(S, o), o)
                   IN [A EXCEPT !.T[o].isPolling = FALSE,
                                !.T[o].isScheduled = FALSE,
                                !.Q = SpliceFirst(A.Q, c)]
        S2 == [S1 EXCEPT !.at[c] = Nil, !.ord = OrderDelete(S1.ord, c)]
    IN [S2 EXCEPT !.seenf = SeenSnapshot(S2.at, S2.T), !.sf[c] = NoEntry]

ResetCmd(c) ==
    /\ ncmd < MaxCmds
    /\ ncmd' = ncmd + 1
    /\ lastCmd' = [cmd |-> "reset", chatId |-> c, late |-> {}]
    /\ stopped' = [stopped EXCEPT ![c] = "reset"]
    /\ UNCHANGED published
    /\ Commit(ResetState(Cur, c))

\* !autoschedule <team url> [recap] (app.js 204-228): after the guard the
\* handler awaits its first send and then the team page inside
\* autoScheduleNextGame; nothing is written before the page arrives.
AutoscheduleState(S, c, mode) ==
    IF Rejects(S, c) THEN S
    ELSE [S EXCEPT !.au = @ (+) One([chatId |-> c, mode |-> mode, finished |-> NoGame,
                                     concluded |-> NoGame])]

AutoscheduleCmd(c, mode) ==
    /\ ncmd < MaxCmds
    /\ ncmd' = ncmd + 1
    /\ lastCmd' = [cmd |-> "autoschedule", chatId |-> c, late |-> {}]
    /\ stopped' = [stopped EXCEPT ![c] = "no"]
    /\ UNCHANGED published
    /\ Commit(AutoscheduleState(Cur, c, mode))

(*************************** beginActualPolling ****************************)
\* The part of beginActualPolling after the legend send (polling.js 303-319);
\* o is the object the call read from the Map at its start.
ActivationTail(S, c, o) ==
    LET S1 == IF S.T[o].mode = "recap"
              THEN SetInterval(IF S.T[o].recapIntervalId # "none"
                               THEN ClearInterval(S, o) ELSE S, o, c)
              ELSE S
    IN IF HasPollJob(S1.Q, c) THEN S1
       ELSE [S1 EXCEPT !.Q = <<[type |-> "poll", chatId |-> c,
                                gameId |-> S1.T[o].gameId]>> \o S1.Q]

\* beginActualPolling(chatId) up to its first await (polling.js 259-301)
BeginActualPolling(S, c) ==
    LET o == S.at[c] IN
    IF o = Nil THEN [S EXCEPT !.sf[c] = NoEntry]
    ELSE IF S.T[o].isPolling THEN S
    ELSE LET S1 == [S EXCEPT !.T[o].isPolling = TRUE,
                             !.T[o].isScheduled = FALSE,
                             !.T[o].recapMinuteCounter = 0,
                             !.sf[c] = NoEntry]
         IN IF S1.T[o].mode = "recap"
            THEN [S1 EXCEPT !.act = @ (+) One([chatId |-> c, obj |-> o])]
            ELSE ActivationTail(S1, c, o)

(***************************** sendRecapMessage ****************************)
\* sendRecapMessage(chatId, isCritical, null) up to its await.  The result
\* is the state with the outcome in `out`: "return" (returned without
\* sending), "throw" (TypeError on the missing ticker), "await" (suspended
\* in client.sendMessage, with the object and the occurrences it captured).
NoFlush == [obj |-> Nil, evs |-> <<>>]

\* eventsToSend.sort((a, b) => a.timestamp - b.timestamp): the feed's order
\* is the order of the identifiers.
RECURSIVE SortEvents(_)
SortEvents(s) ==
    IF s = <<>> THEN <<>>
    ELSE LET m == CHOOSE i \in 1..Len(s) : \A j \in 1..Len(s) : s[i] <= s[j]
         IN <<s[m]>> \o SortEvents(RemoveAt(s, m))

\* a cursor that a timer-triggered flush leaves in place
NextCursorStuck(startMin, isCritical) == startMin

\* The minute cursor after a flush started at startMin (polling.js 338-346);
\* both callers pass event = null.
NextCursor(startMin, isCritical) ==
    IF isCritical THEN startMin ELSE startMin + RECAP_INTERVAL_MINUTES

SendRecapMessage(S, c, isCritical) ==
    LET o == S.at[c] IN
    IF ~isCritical /\ (o = Nil \/ ~S.T[o].isPolling \/ S.T[o].recapEvents = <<>>)
    THEN [st |-> S, out |-> "return", fl |-> NoFlush]
    ELSE IF o = Nil
    THEN [st |-> S, out |-> "throw", fl |-> NoFlush]
    ELSE LET S1 == [S EXCEPT !.T[o].recapMinuteCounter = NextCursor(@, isCritical)]
             eventsToSend == S.T[o].recapEvents
         IN IF eventsToSend = <<>>
            THEN [st |-> S1, out |-> "return", fl |-> NoFlush]
            ELSE [st |-> S1, out |-> "await",
                  fl |-> [obj |-> o, evs |-> SortEvents(eventsToSend)]]

\* a return that keeps the buffer when the send has failed
RecapDeliveredKeep(S, f, ok) ==
    [S EXCEPT !.T[f.obj].recapEvents = IF ok THEN <<>> ELSE @,
              !.T[f.obj].recapSent = IF ok THEN @ \o f.evs ELSE @]

\* client.sendMessage of a recap returned: the buffer is cleared either way
\* (polling.js 374-380); a delivered message is recorded in recapSent.
RecapDelivered(S, f, ok) ==
    [S EXCEPT !.T[f.obj].recapEvents = <<>>,
              !.T[f.obj].recapSent = IF ok THEN @ \o f.evs ELSE @]

(***************************** masterScheduler *****************************)
\* a cursor that does not advance
NextIndexStuck(last, n) == last % n

\* lastPolledIndex = (lastPolledIndex + 1) % pollingTickers.length
NextIndex(last, n) == (last + 1) % n

MasterSchedulerState(S) ==
    LET pt == PollingTickers(S) IN
    IF pt = <<>> THEN S
    ELSE LET idx == NextIndex(S.lpi, Len(pt))
             c == pt[idx + 1]
             S1 == [S EXCEPT !.lpi = idx]
             S2 == IF S1.T[S1.at[c]].isPolling /\ ~HasPollJob(S1.Q, c)
                   THEN [S1 EXCEPT !.Q = Append(@, [type |-> "poll", chatId |-> c,
                                            gameId |-> S1.T[S1.at[c]].gameId])]
                   ELSE S1
         IN [S2 EXCEPT !.wt = [d \in Chats |->
                 IF d \notin SeqToSet(pt) \/ HasPollJob(S2.Q, d) THEN 0
                 ELSE S.wt[d] + 1]]

MasterScheduler ==
    /\ PollingTickers(Cur) # <<>>
    /\ UNCHANGED <<published, ncmd, stopped, lastCmd>>
    /\ Commit(MasterSchedulerState(Cur))

(******************************* runWorker *********************************)
\* A runWorker invocation suspended at an await:
\*   pc = "fetch"     axios.get of the game data
\*        "confirm"   schedule job: the scheduled / started-immediately notice
\*        "errNotify" schedule job: the failure notice in the catch block
\*        "liveSend"  poll job: client.sendMessage of occurrence i (live)
\*        "critFlush" poll job: sendRecapMessage(chatId, true, null)
\*        "summary"   poll job: generateGameSummary after the terminal occurrence
\* obj is the ticker object read at the start of runWorker; n is the number
\* of occurrences in the fetched payload, i the position (oldest first) of
\* the occurrence being handled, any is newUnseenEventsProcessed; auto is a
\* history field: isAutoSchedule when the terminal occurrence was detected;
\* failed is a history field: a live send of this invocation has thrown.
WorkerRec(job, o) ==
    [type |-> job.type, chatId |-> job.chatId, gameId |-> job.gameId,
     obj |-> o, pc |-> "fetch", n |-> 0, i |-> 0, any |-> FALSE,
     due |-> FALSE, fobj |-> Nil, evs |-> <<>>, auto |-> FALSE, failed |-> FALSE]

\* a worker that keeps its slot when it ends
FinishKeepsSlot(S) == S

\* the finally block / the early return: activeWorkers--
Finish(S) == [S EXCEPT !.aw = @ - 1]
Suspend(S, w) == [S EXCEPT !.W = @ (+) One(w)]

\* The validity test at the start of runWorker (polling.js 426)
IsStale(S, job) ==
    LET o == S.at[job.chatId] IN
    \/ o = Nil
    \/ job.type = "poll" /\ ~S.T[o].isPolling
    \/ job.type = "schedule" /\ ~S.T[o].isScheduling

RunWorker(S, job) ==
    IF IsStale(S, job) THEN Finish(S)
    ELSE Suspend(S, WorkerRec(job, S.at[job.chatId]))

\* a dispatcher that ignores the worker counter
CanDispatchUncapped(S) == Len(S.Q) > 0

\* jobQueue.length > 0 && activeWorkers < MAX_WORKERS
CanDispatch(S) == Len(S.Q) > 0 /\ S.aw < MAX_WORKERS

DispatcherLoop ==
    /\ CanDispatch(Cur)
    /\ UNCHANGED <<published, ncmd, stopped, lastCmd>>
    /\ Commit(RunWorker([Cur EXCEPT !.aw = @ + 1, !.Q = Tail(@)], Head(jobQueue)))

\* --- schedule jobs ---
\* the catch block's work after the failure notice (polling.js 534-539)
ScheduleTeardown(S, w) ==
    Finish([S EXCEPT !.at[w.chatId] = Nil, !.ord = OrderDelete(S.ord, w.chatId),
                     !.sf[w.chatId] = NoEntry])

\* the catch block of a schedule job (polling.js 525-533)
ScheduleCatch(S, w) ==
    IF ~S.T[w.obj].isAutoSchedule
    THEN Suspend(S, [w EXCEPT !.pc = "errNotify"])
    ELSE ScheduleTeardown(S, w)

\* startTime.toISOString() and new Date(scheduleData.startTime)
ToISOString(t) == <<"iso", t>>
\* a mutant: the stored time read in another time zone
ParseDateShifted(iso) == iso[2] + 60
ParseDate(iso) == iso[2]

\* a mutant: the activation time without the lead
StartTimeNoLead(g) == StartsAt(g)

\* const startTime = new Date(scheduledTime.getTime() - PRE_GAME_START_MINUTES * 60000)
StartTime(g) == StartsAt(g) - PRE_GAME_START_MINUTES

\* currentSchedule[chatId] = { meetingPageUrl, startTime, mode, ... }
ScheduleEntry(t, g) ==
    [gameId |-> g, startTime |-> ToISOString(StartTime(g)), mode |-> t.mode,
     isAutoSchedule |-> t.isAutoSchedule, teamPageUrl |-> t.teamPageUrl]

\* delay > 0, after the notice (polling.js 474-488)
ScheduleFuture(S, w) ==
    LET S1 == [S EXCEPT !.T[w.obj].isPolling = FALSE,
                        !.T[w.obj].isScheduled = TRUE,
                        !.sf[w.chatId] = ScheduleEntry(S.T[w.obj], w.gameId)]
    IN Finish(SetTimeout(S1, w.obj, w.chatId, StartTime(w.gameId)))

\* delay <= 0, after the notice (polling.js 497-498); beginActualPolling is
\* not awaited, the worker ends when it reaches its first await.
ScheduleNow(S, w) ==
    Finish(BeginActualPolling([S EXCEPT !.T[w.obj].isScheduling = FALSE], w.chatId))

ScheduleProceed(S, w) == IF w.due THEN ScheduleNow(S, w) ELSE ScheduleFuture(S, w)

\* a schedule job's fetch returned a valid payload (polling.js 451-472, 490-496)
ScheduleFetched(S, w, due) ==
    LET w1 == [w EXCEPT !.due = due] IN
    IF ~S.T[w.obj].isAutoSchedule
    THEN Suspend(S, [w1 EXCEPT !.pc = "confirm"])
    ELSE ScheduleProceed(S, w1)

\* --- poll jobs: processEvents ---
\* gameData.events is newest first
Payload(g, n) == Reverse(SubSeq(Feed(g), 1, n))
\* a loop over the provider's list as it comes
ChronEventsUnreversed(w) == Payload(w.gameId, w.n)
\* const events = gameData.events.slice().reverse()
ChronEvents(w) == Reverse(Payload(w.gameId, w.n))

\* a seen-set that keeps only the latest occurrence
MarkSeenOnlyLatest(seen, e) == {e}
\* a seen-set that is never consulted
AlreadySeenIgnored(seen, e) == FALSE

\* tickerState.seen.add(ev.id)
MarkSeen(seen, e) == seen \cup {e}
\* if (tickerState.seen.has(ev.id)) continue
AlreadySeen(seen, e) == e \in seen

IsCriticalEvent(e) == EvType(e) \in {"StopPeriod", "StartPeriod"}
IsTerminalEvent(e) == EvType(e) = "StopPeriod" /\ EvMinute(e) > FULL_TIME_MINUTE

\* processEvents returned into runWorker (polling.js 518-520, 541-544)
PollReturn(S, w) ==
    Finish(IF w.any THEN [S EXCEPT !.seenf = SeenSnapshot(S.at, S.T)] ELSE S)

RECURSIVE ProcessLoop(_, _, _)
RECURSIVE AfterDelivery(_, _)
RECURSIVE AfterFlush(_, _)
RECURSIVE Terminal(_, _)

\* the for loop of processEvents from position i, up to the next await
ProcessLoop(S, w, i) ==
    LET o == w.obj
        evs == ChronEvents(w)
    IN IF i > Len(evs) THEN PollReturn(S, w)
       ELSE LET e == evs[i] IN
            IF AlreadySeen(S.T[o].seen, e) THEN ProcessLoop(S, w, i + 1)
            ELSE LET S1 == [S EXCEPT !.T[o].seen = MarkSeen(@, e)]
                     w1 == [w EXCEPT !.any = TRUE, !.i = i]
                 IN IF S1.T[o].mode = "live"
                    THEN Suspend([S1 EXCEPT !.T[o].sentLive = Append(@, e)],
                                 [w1 EXCEPT !.pc = "liveSend"])
                    ELSE AfterDelivery(
                            [S1 EXCEPT !.T[o].recapEvents = Append(@, e),
                                       !.T[o].pushed = @ \cup {e}], w1)

\* polling.js 638-644: the critical-occurrence flush
AfterDelivery(S, w) ==
    LET o == w.obj
        e == ChronEvents(w)[w.i]
    IN IF IsCriticalEvent(e) /\ S.T[o].mode = "recap"
       THEN LET S1 == IF S.T[o].recapIntervalId # "none" THEN ClearInterval(S, o) ELSE S
                r == SendRecapMessage(S1, w.chatId, TRUE)
            IN CASE r.out = "throw" -> Finish(r.st)
                 [] r.out = "await" ->
                      Suspend(r.st, [w EXCEPT !.pc = "critFlush",
                                              !.fobj = r.fl.obj, !.evs = r.fl.evs])
                 [] r.out = "return" -> AfterFlush(r.st, w)
       ELSE Terminal(S, w)

\* polling.js 645-647: the interval is armed again on the worker's object
AfterFlush(S, w) == Terminal(SetInterval(S, w.obj, w.chatId), w)

\* polling.js 650-677: terminal detection up to the await of the summary
Terminal(S, w) ==
    LET o == w.obj
        e == ChronEvents(w)[w.i]
    IN IF IsTerminalEvent(e)
       THEN LET S1 == [S EXCEPT !.T[o].isPolling = FALSE]
                S2 == IF S1.T[o].recapIntervalId # "none" THEN ClearInterval(S1, o) ELSE S1
            IN Suspend([S2 EXCEPT !.Q = SpliceFirst(@, w.chatId)],
                       [w EXCEPT !.pc = "summary", !.auto = S.T[o].isAutoSchedule])
       ELSE ProcessLoop(S, w, w.i + 1)

\* The timer of a post-game message: armed when its text was made.
PostTimer(ok) == IF ok THEN "armed" ELSE "none"

\* post-game code in which an exception of extractGameStats or
\* generateGameSummary leaves processEvents
AfterSummaryThrows(S, w, statsOk, sumOk) ==
    IF statsOk /\ sumOk
    THEN PollReturn([S EXCEPT !.cl = @ (+) One([chatId |-> w.chatId, obj |-> w.obj,
                                  gameId |-> w.gameId, auto |-> w.auto,
                                  stats |-> "armed", summary |-> "armed",
                                  final |-> "armed"])],
                    [w EXCEPT !.auto = FALSE])
    ELSE Finish(S)

\* polling.js 660-715: the timers of the statistics (if extractGameStats
\* returned), of the summary (if generateGameSummary returned), of the
\* closing message and of the cleanup are armed, the loop breaks.  The
\* cleanup timer's closure holds chatId and tickerState; gameId and auto are
\* history fields: the game whose end armed the timer and isAutoSchedule at
\* that end; stats, summary and final tell what became of the three messages.
AfterSummary(S, w, statsOk, sumOk) ==
    PollReturn([S EXCEPT !.cl = @ (+) One([chatId |-> w.chatId, obj |-> w.obj,
                                  gameId |-> w.gameId, auto |-> w.auto,
                                  stats |-> PostTimer(statsOk),
                                  summary |-> PostTimer(sumOk),
                                  final |-> "armed"])],
               [w EXCEPT !.auto = FALSE])

\* the version token of a payload with n occurrences
UpdatedAt(n) == n + 1

\* a poll job's fetch returned a valid payload (polling.js 502-523)
PollFetched(S, w, n) ==
    LET o == w.obj IN
    IF S.T[o].lastUpdatedAt = 0 \/ UpdatedAt(n) > S.T[o].lastUpdatedAt
    THEN ProcessLoop([S EXCEPT !.T[o].lastUpdatedAt = UpdatedAt(n)],
                     [w EXCEPT !.n = n, !.any = FALSE], 1)
    ELSE Finish(S)

\* --- the steps of a suspended worker ---
Resume(w) == [Cur EXCEPT !.W = @ (-) One(w)]

\* a failed poll that puts its job back at the head of the queue
PollFailedRequeue(S, w) ==
    Finish([S EXCEPT !.Q = <<[type |-> "poll", chatId |-> w.chatId,
                              gameId |-> w.gameId]>> \o @])

\* the catch block of a poll job: the error is logged (polling.js 525-526)
PollFailed(S, w) == Finish(S)

\* the body of runWorker after axios.get (polling.js 443-448, 525-527)
FetchedState(S, w, ok, due, n) ==
    IF ~ok
    THEN IF w.type = "schedule" THEN ScheduleCatch(S, w) ELSE PollFailed(S, w)
    ELSE IF w.type = "schedule" THEN ScheduleFetched(S, w, due)
         ELSE PollFetched(S, w, n)

\* axios.get returns: a failure (network error, timeout, payload without
\* summary or events) or the provider's data at that time: the first n
\* occurrences of the game's feed, n not less than in any earlier response;
\* due tells whether the declared start minus the lead has passed (it has
\* once the game has occurrences).
WorkerFetched(w, ok, due, n) ==
    /\ BagIn(w, workers) /\ w.pc = "fetch"
    /\ n \in published[w.gameId]..Len(Feed(w.gameId))
    /\ n > 0 => due
    /\ ~ok => n = published[w.gameId] /\ due
    /\ published' = [published EXCEPT ![w.gameId] = n]
    /\ UNCHANGED <<ncmd, stopped, lastCmd>>
    /\ Commit(FetchedState(Resume(w), w, ok, due, n))

\* the notice of a schedule job returns; a throw lands in the catch block
WorkerConfirmed(w, ok) ==
    /\ BagIn(w, workers) /\ w.pc = "confirm"
    /\ UNCHANGED <<published, ncmd, stopped, lastCmd>>
    /\ Commit(IF ok THEN ScheduleProceed(Resume(w), w)
              ELSE ScheduleCatch(Resume(w), w))

\* the failure notice returns; a throw leaves the catch block at once, only
\* the finally block runs
WorkerNotified(w, ok) ==
    /\ BagIn(w, workers) /\ w.pc = "errNotify"
    /\ UNCHANGED <<published, ncmd, stopped, lastCmd>>
    /\ Commit(IF ok THEN ScheduleTeardown(Resume(w), w) ELSE Finish(Resume(w)))

\* a send whose exception ends the job
LiveSendAborts(S, w, ok) ==
    IF ok THEN AfterDelivery(S, w) ELSE Finish(S)

\* try { await client.sendMessage(chatId, msg) } catch (sendError) { log }
\* (polling.js 576-581): the loop goes on after a throw as after a delivery.
LiveSendReturned(S, w, ok) ==
    AfterDelivery(S, [w EXCEPT !.failed = @ \/ ~ok])

\* the live send of an occurrence returns or throws
WorkerLiveSent(w, ok) ==
    /\ BagIn(w, workers) /\ w.pc = "liveSend"
    /\ UNCHANGED <<published, ncmd, stopped, lastCmd>>
    /\ Commit(LiveSendReturned(Resume(w), w, ok))

\* the critical flush returns
WorkerFlushed(w, ok) ==
    /\ BagIn(w, workers) /\ w.pc = "critFlush"
    /\ UNCHANGED <<published, ncmd, stopped, lastCmd>>
    /\ Commit(AfterFlush(RecapDelivered(Resume(w), [obj |-> w.fobj, evs |-> w.evs], ok),
                         [w EXCEPT !.fobj = Nil, !.evs = <<>>]))

\* extractGameStats and generateGameSummary have returned or thrown
WorkerSummarized(w, statsOk, sumOk) ==
    /\ BagIn(w, workers) /\ w.pc = "summary"
    /\ UNCHANGED <<published, ncmd, stopped, lastCmd>>
    /\ Commit(AfterSummary(Resume(w), w, statsOk, sumOk))

(************************ timers and pending calls *************************)
\* The objects whose scheduleTimeout is the handle of an armed timer of chat c
TimeoutOwners(c) ==
    {o \in ObjIds : tickers[o].chatId = c /\ tickers[o].scheduleTimeout = "armed"}

\* A deferred-activation timer of chat c fires: the one whose handle object
\* o holds, or (o = Nil) one whose handle nothing holds any more.
TimeoutFires(c, o) ==
    /\ timeouts[c] > 0
    /\ \/ o \in TimeoutOwners(c)
       \/ o = Nil /\ timeouts[c] > Cardinality(TimeoutOwners(c))
    /\ UNCHANGED <<published, ncmd, stopped, lastCmd>>
    /\ LET S1 == [Cur EXCEPT !.tmo[c] = @ - 1]
           S2 == IF o = Nil THEN S1 ELSE [S1 EXCEPT !.T[o].scheduleTimeout = "dead"]
       IN Commit(BeginActualPolling(S2, c))

\* beginActualPolling resumes after the legend send (a throw is caught)
ActivationDone(a) ==
    /\ BagIn(a, activations)
    /\ UNCHANGED <<published, ncmd, stopped, lastCmd>>
    /\ Commit(ActivationTail([Cur EXCEPT !.act = @ (-) One(a)], a.chatId, a.obj))

\* A recap interval timer of chat c ticks: sendRecapMessage(chatId, false, null)
\* runs up to its early return or up to the await of the send.
IntervalFires(c) ==
    /\ intervals[c] > 0
    /\ UNCHANGED <<published, ncmd, stopped, lastCmd>>
    /\ LET r == SendRecapMessage(Cur, c, FALSE)
       IN IF r.out = "await"
          THEN Commit([r.st EXCEPT !.fl = @ (+)
                         One([chatId |-> c, obj |-> r.fl.obj, evs |-> r.fl.evs])])
          ELSE Commit(r.st)

\* the send of a timer-triggered recap returns
FlushDone(f, ok) ==
    /\ BagIn(f, flushes)
    /\ UNCHANGED <<published, ncmd, stopped, lastCmd>>
    /\ Commit(RecapDelivered([Cur EXCEPT !.fl = @ (-) One(f)], f, ok))

\* The send of a post-game message (statistics after 1 s, summary after 2 s,
\* closing message after 4 s; polling.js 662-683) returns or throws inside
\* the try of its own timer callback.
PostMessages == {"stats", "summary", "final"}

PostSend(k, m, ok) ==
    /\ BagIn(k, cleanups) /\ k[m] = "armed"
    /\ UNCHANGED <<published, ncmd, stopped, lastCmd>>
    /\ Commit([Cur EXCEPT !.cl = (@ (-) One(k))
                   (+) One([k EXCEPT ![m] = IF ok THEN "sent" ELSE "failed"])])

\* The 30 s cleanup timer of a concluded game fires (polling.js 685-714),
\* up to the await of the team page inside autoScheduleNextGame.
CleanupState(S, k) ==
    LET c == k.chatId
        S1 == IF S.at[c] # Nil
              THEN LET D == [S EXCEPT !.at[c] = Nil, !.ord = OrderDelete(S.ord, c)]
                   IN [D EXCEPT !.seenf = SeenSnapshot(D.at, D.T)]
              ELSE S
    IN IF S1.T[k.obj].isAutoSchedule
       THEN [S1 EXCEPT !.au = @ (+) One([chatId |-> c, mode |-> S1.T[k.obj].mode,
                                         finished |-> S1.T[k.obj].gameId,
                                         concluded |-> k.gameId])]
       ELSE S1

CleanupFires(k) ==
    /\ BagIn(k, cleanups)
    /\ UNCHANGED <<published, ncmd, stopped, lastCmd>>
    /\ LET S0 == [Cur EXCEPT !.cl = @ (-) One(k)]
       IN Commit(CleanupState(S0, k))

\* What the team page can list: the games in state 'Pre', in page order.
\* g1 precedes g2 in the series; the page may still list a game that has just
\* been played, but not g1 once g2 has begun.
Listings ==
    {<<>>, <<"g2">>} \cup (IF published["g2"] = 0 THEN {<<"g1", "g2">>} ELSE {})

\* games.find(game => game.state === 'Pre' && game.startsAt && game.id !== finishedGameId)
NextGame(listing, finished) ==
    LET ok == {i \in 1..Len(listing) : listing[i] # finished}
    IN IF ok = {} THEN NoGame
       ELSE listing[CHOOSE i \in ok : \A j \in ok : i <= j]

\* getSpielplanData returns inside autoScheduleNextGame (polling.js 223-253):
\* without a game on the page (or without a page) the call throws, else the
\* next game is looked up and scheduled.
AutoFetchedState(S, a, listing) ==
    LET g == NextGame(listing, a.finished)
    IN IF g = NoGame THEN S
       ELSE QueueTickerScheduling(S, a.chatId, g, a.mode, TRUE)

AutoFetched(a, listing) ==
    /\ BagIn(a, autos)
    /\ UNCHANGED <<published, ncmd, stopped, lastCmd>>
    /\ NextGame(listing, a.finished) # NoGame => RoomToSchedule(a.chatId)
    /\ Commit(AutoFetchedState([Cur EXCEPT !.au = @ (-) One(a)], a, listing))

(********************* restart: client.on('ready') *************************)
\* The order in which the keys of the persisted files are read.
ChatSeq == <<"c1", "c2">>

\* A new process before 'ready': the module state as app.js and polling.js
\* construct it.  Timers, workers and pending calls of the old process are
\* gone; the two files are what the old process wrote last.
BootState(S) ==
    [S EXCEPT !.at = [c \in Chats |-> Nil], !.ord = <<>>,
              !.T = [o \in ObjIds |-> FreeObj], !.Q = <<>>, !.aw = 0,
              !.lpi = -1, !.W = EmptyBag, !.rep = EmptyBag, !.au = EmptyBag,
              !.act = EmptyBag, !.fl = EmptyBag, !.cl = EmptyBag,
              !.tmo = [c \in Chats |-> 0], !.ivl = [c \in Chats |-> 0],
              !.wt = [c \in Chats |-> 0]]

\* An id for `new` in heap T: the least slot that holds no object.
FreshIn(T) ==
    CHOOSE o \in ObjIds :
        T[o].chatId = "none" /\ \A p \in ObjIds : T[p].chatId = "none" => o <= p

\* loadSeenTickers, the loop body for chat c (utils.js 13-20)
LoadSeen(S, c) ==
    IF ~S.seenf[c][1] THEN S
    ELSE IF S.at[c] = Nil
    THEN LET o == FreshIn(S.T)
         IN [S EXCEPT !.T[o] = [NewTicker(c) EXCEPT !.seen = NewSet(S.seenf[c][2])],
                      !.at[c] = o, !.ord = OrderSet(@, c)]
    ELSE [S EXCEPT !.T[S.at[c]].seen = NewSet(S.seenf[c][2])]

\* The loop of the ready handler over the pending-schedule entries, the body
\* for chat c (app.js 46-85); late holds the chats whose stored start time
\* is not after Date.now().
ReadyEntry(S, c, late) ==
    LET e == S.sf[c] IN
    IF e = NoEntry \/ ~IsGameId(e.gameId) THEN S
    ELSE LET fresh == S.at[c] = Nil
             o == IF fresh THEN FreshIn(S.T) ELSE S.at[c]
             base == IF fresh THEN NewTicker(c) ELSE S.T[o]
             t == [base EXCEPT !.gameId = e.gameId, !.mode = e.mode,
                               !.isAutoSchedule = e.isAutoSchedule,
                               !.teamPageUrl = e.teamPageUrl,
                               !.recapEvents = <<>>, !.isPolling = FALSE]
             S1 == [S EXCEPT !.T[o] = t, !.at[c] = o, !.ord = OrderSet(@, c)]
         IN IF c \notin late
            THEN SetTimeout([S1 EXCEPT !.T[o].isScheduled = TRUE], o, c,
                            ParseDate(e.startTime))
            ELSE IF S1.at[c] = Nil
                 THEN [S1 EXCEPT !.sf[c] = NoEntry]
                 ELSE S1

RECURSIVE LoadSeenTickers(_, _)
LoadSeenTickers(S, i) ==
    IF i > Len(ChatSeq) THEN S
    ELSE LoadSeenTickers(LoadSeen(S, ChatSeq[i]), i + 1)

RECURSIVE ReadyLoop(_, _, _)
ReadyLoop(S, i, late) ==
    IF i > Len(ChatSeq) THEN S
    ELSE ReadyLoop(ReadyEntry(S, ChatSeq[i], late), i + 1, late)

\* client.on('ready') (app.js 37-89)
ReadyState(S, late) == ReadyLoop(LoadSeenTickers(S, 1), 1, late)

\* The process ends and is started again; 'ready' runs in the new process.
Restart(late) ==
    /\ ncmd < MaxCmds
    /\ late \subseteq {c \in Chats : scheduleFile[c] # NoEntry}
    /\ ncmd' = ncmd + 1
    /\ lastCmd' = [cmd |-> "restart", chatId |-> "none", late |-> late]
    /\ stopped' = [c \in Chats |-> "no"]
    /\ UNCHANGED published
    /\ Commit(ReadyState(BootState(Cur), late))

(************************ shutdown: process.on('SIGINT') *******************)
\* The body of the forEach callback for the ticker of chat c (app.js 244-247).
\* The last line names tickerState, which no scope of app.js declares: when
\* ticker.recapIntervalId holds a handle (armed or not) the argument of
\* clearInterval throws a ReferenceError.
SigintTicker(S, c) ==
    LET o == S.at[c]
        S1 == [S EXCEPT !.T[o].isPolling = FALSE, !.T[o].isScheduled = FALSE]
        S2 == IF S1.T[o].scheduleTimeout # "none" THEN ClearTimeout(S1, o) ELSE S1
    IN [st |-> S2, threw |-> S2.T[o].recapIntervalId # "none"]

\* activeTickers.forEach(...) from the i-th key on, up to a throw
RECURSIVE SigintLoop(_, _)
SigintLoop(S, i) ==
    IF i > Len(S.ord) THEN [st |-> S, threw |-> FALSE]
    ELSE LET r == SigintTicker(S, S.ord[i])
         IN IF r.threw THEN r ELSE SigintLoop(r.st, i + 1)

\* The SIGINT handler up to the end of the process (app.js 241-252):
\* saveSeenTickers and process.exit(0) follow the loop; a throw inside the
\* loop rejects the handler's promise, which ends the process at once.
SigintState(S) ==
    LET r == SigintLoop(S, 1)
    IN IF r.threw THEN r.st
       ELSE [r.st EXCEPT !.seenf = SeenSnapshot(r.st.at, r.st.T)]

\* SIGINT: the handler runs, the process ends and is started again.
Sigint(late) ==
    /\ ncmd < MaxCmds
    /\ late \subseteq {c \in Chats : scheduleFile[c] # NoEntry}
    /\ ncmd' = ncmd + 1
    /\ lastCmd' = [cmd |-> "sigint", chatId |-> "none", late |-> late]
    /\ stopped' = [c \in Chats |-> "no"]
    /\ UNCHANGED published
    /\ Commit(ReadyState(BootState(SigintState(Cur)), late))

(***************************** specifications ******************************)
\* Bounds of the scenarios: runWorker invocations and timer-triggered flushes
\* suspended at the same time.
WorkerRoom == BagCardinality(workers) < MaxInFlight
FlushRoom == BagCardinality(flushes) < MaxFlushes

\* --- Spec: the life cycle of one live subscription ---
\* Users of chat c1 start game g1 in live mode, stop and reset; the
\* acknowledgement of !start is delivered.
Command ==
    \/ StartCmd("c1", "g1", "live", TRUE)
    \/ StopCmd("c1")
    \/ ResetCmd("c1")

WorkerStep ==
    \E w \in BagToSet(workers) :
        \/ \E ok \in BOOLEAN, due \in BOOLEAN, n \in FeedLens : WorkerFetched(w, ok, due, n)
        \/ \E ok \in BOOLEAN : WorkerConfirmed(w, ok)
        \/ \E ok \in BOOLEAN : WorkerNotified(w, ok)
        \/ WorkerLiveSent(w, TRUE)
        \/ WorkerSummarized(w, TRUE, TRUE)

Timer ==
    \/ \E o \in ObjIds \cup {Nil} : TimeoutFires("c1", o)
    \/ \E k \in BagToSet(cleanups) : CleanupFires(k)

Next ==
    \/ Command
    \/ MasterScheduler
    \/ WorkerRoom /\ DispatcherLoop
    \/ WorkerStep
    \/ Timer

Spec == Init /\ [][Next]_vars

\* --- SpecPool: the worker pool under load ---
\* One live subscription of game g2 whose start has passed; the dispatcher is
\* limited by MAX_WORKERS alone.
PoolWorkerStep ==
    \E w \in BagToSet(workers) :
        \/ \E ok \in BOOLEAN, n \in {0, 1} : WorkerFetched(w, ok, TRUE, n)
        \/ WorkerConfirmed(w, TRUE)
        \/ WorkerNotified(w, TRUE)
        \/ WorkerLiveSent(w, TRUE)
        \/ WorkerSummarized(w, TRUE, TRUE)

PoolNext ==
    \/ StartCmd("c1", "g2", "live", TRUE)
    \/ MasterScheduler
    \/ DispatcherLoop
    \/ PoolWorkerStep
    \/ \E k \in BagToSet(cleanups) : CleanupFires(k)

SpecPool == Init /\ [][PoolNext]_vars

\* --- SpecDrain: the worker pool under load, with its timers running ---
\* The dispatcher interval keeps ticking (app.js 237); whenever all
\* MAX_WORKERS workers are busy one of them goes on, so that fewer than
\* MAX_WORKERS of them hang forever.
PoolBusyStep == activeWorkers = MAX_WORKERS /\ PoolWorkerStep

SpecDrain ==
    Init /\ [][PoolNext]_vars /\ WF_vars(DispatcherLoop) /\ WF_vars(PoolBusyStep)

\* --- SpecRecap: one recap subscription whose sends all succeed ---
RecapWorkerStep ==
    \E w \in BagToSet(workers) :
        \/ \E n \in FeedLens : WorkerFetched(w, TRUE, TRUE, n)
        \/ WorkerConfirmed(w, TRUE)
        \/ WorkerFlushed(w, TRUE)
        \/ WorkerSummarized(w, TRUE, TRUE)

RecapNext ==
    \/ ncmd < MaxRecapCmds /\ StartCmd("c1", "g1", "recap", TRUE)
    \/ MasterScheduler
    \/ WorkerRoom /\ DispatcherLoop
    \/ RecapWorkerStep
    \/ \E a \in BagToSet(activations) : ActivationDone(a)
    \/ FlushRoom /\ IntervalFires("c1")
    \/ \E f \in BagToSet(flushes) : FlushDone(f, TRUE)
    \/ \E k \in BagToSet(cleanups) : CleanupFires(k)

SpecRecap == Init /\ [][RecapNext]_vars

\* --- SpecFair: the fairness pass over several polling subscriptions ---
\* Every chat starts (and stops) game g2, whose feed stays empty.
FairWorkerStep ==
    \E w \in BagToSet(workers) :
        \/ \E due \in BOOLEAN : WorkerFetched(w, TRUE, due, 0)
        \/ WorkerConfirmed(w, TRUE)

FairNext ==
    \/ \E c \in Chats : StartCmd(c, "g2", "live", TRUE)
    \/ \E c \in Chats : StopCmd(c)
    \/ MasterScheduler
    \/ WorkerRoom /\ DispatcherLoop
    \/ FairWorkerStep
    \/ \E c \in Chats, o \in ObjIds \cup {Nil} : TimeoutFires(c, o)

SpecFair == Init /\ [][FairNext]_vars

\* --- SpecBoot: one subscription, started or auto-scheduled, across restarts ---
BootWorkerStep ==
    \E w \in BagToSet(workers) :
        \/ \E due \in BOOLEAN, n \in {0, 1} : WorkerFetched(w, TRUE, due, n)
        \/ WorkerConfirmed(w, TRUE)
        \/ WorkerLiveSent(w, TRUE)

BootNext ==
    \/ StartCmd("c1", "g1", "live", TRUE)
    \/ AutoscheduleCmd("c1", "recap")
    \/ \E a \in BagToSet(autos), l \in Listings : AutoFetched(a, l)
    \/ StopCmd("c1")
    \/ \E late \in SUBSET {"c1"} : Restart(late)
    \/ MasterScheduler
    \/ WorkerRoom /\ DispatcherLoop
    \/ BootWorkerStep
    \/ \E o \in ObjIds \cup {Nil} : TimeoutFires("c1", o)
    \/ \E a \in BagToSet(activations) : ActivationDone(a)
    \/ FlushRoom /\ IntervalFires("c1")
    \/ \E f \in BagToSet(flushes) : FlushDone(f, TRUE)

SpecBoot == Init /\ [][BootNext]_vars

\* --- SpecFlush: one recap subscription, stopped at any time, whose polls
\* and recap sends succeed or fail ---
FlushWorkerStep ==
    \E w \in BagToSet(workers) :
        \/ \E ok \in BOOLEAN, n \in FeedLens :
               (w.type = "poll" \/ ok) /\ WorkerFetched(w, ok, TRUE, n)
        \/ WorkerConfirmed(w, TRUE)
        \/ \E ok \in BOOLEAN : WorkerFlushed(w, ok)
        \/ WorkerSummarized(w, TRUE, TRUE)

FlushNext ==
    \/ ncmd < MaxRecapCmds /\ StartCmd("c1", "g1", "recap", TRUE)
    \/ StopCmd("c1")
    \/ MasterScheduler
    \/ WorkerRoom /\ DispatcherLoop
    \/ FlushWorkerStep
    \/ \E a \in BagToSet(activations) : ActivationDone(a)
    \/ FlushRoom /\ IntervalFires("c1")
    \/ \E f \in BagToSet(flushes), ok \in BOOLEAN : FlushDone(f, ok)
    \/ \E k \in BagToSet(cleanups) : CleanupFires(k)

SpecFlush == Init /\ [][FlushNext]_vars

\* --- SpecAuto: a chain of auto-scheduled games ---
\* Users of chat c1 send !autoschedule (live mode), the games of the team
\* are played one after the other; !stop may arrive at any time.
AutoWorkerStep ==
    \E w \in BagToSet(workers) :
        \/ \E due \in BOOLEAN, n \in FeedLens : WorkerFetched(w, TRUE, due, n)
        \/ WorkerConfirmed(w, TRUE)
        \/ WorkerLiveSent(w, TRUE)
        \/ WorkerSummarized(w, TRUE, TRUE)

AutoNext ==
    \/ ncmd < MaxAutoCmds /\ AutoscheduleCmd("c1", "live")
    \/ StopCmd("c1")
    \/ \E a \in BagToSet(autos), l \in Listings : AutoFetched(a, l)
    \/ MasterScheduler
    \/ WorkerRoom /\ DispatcherLoop
    \/ AutoWorkerStep
    \/ \E o \in ObjIds \cup {Nil} : TimeoutFires("c1", o)
    \/ \E k \in BagToSet(cleanups) : CleanupFires(k)

SpecAuto == Init /\ [][AutoNext]_vars

\* --- SpecLive: one live subscription whose sends succeed or fail ---
\* A user of chat c1 starts game g1 in live mode; !stop may arrive at any
\* time; every fetch succeeds.
LiveWorkerStep ==
    \E w \in BagToSet(workers) :
        \/ \E due \in BOOLEAN, n \in FeedLens : WorkerFetched(w, TRUE, due, n)
        \/ WorkerConfirmed(w, TRUE)
        \/ \E ok \in BOOLEAN : WorkerLiveSent(w, ok)
        \/ WorkerSummarized(w, TRUE, TRUE)

LiveNext ==
    \/ ncmd < MaxLiveCmds /\ StartCmd("c1", "g1", "live", TRUE)
    \/ StopCmd("c1")
    \/ MasterScheduler
    \/ WorkerRoom /\ DispatcherLoop
    \/ LiveWorkerStep
    \/ \E o \in ObjIds \cup {Nil} : TimeoutFires("c1", o)
    \/ \E k \in BagToSet(cleanups) : CleanupFires(k)

SpecLive == Init /\ [][LiveNext]_vars

\* --- SpecDown: one recap subscription and the shutdown signal ---
DownWorkerStep ==
    \E w \in BagToSet(workers) :
        \/ \E due \in BOOLEAN, n \in FeedLens : WorkerFetched(w, TRUE, due, n)
        \/ WorkerConfirmed(w, TRUE)
        \/ WorkerFlushed(w, TRUE)
        \/ WorkerSummarized(w, TRUE, TRUE)

DownNext ==
    \/ ncmd < MaxRecapCmds /\ StartCmd("c1", "g1", "recap", TRUE)
    \/ \E late \in SUBSET {"c1"} : Sigint(late)
    \/ MasterScheduler
    \/ WorkerRoom /\ DispatcherLoop
    \/ DownWorkerStep
    \/ \E o \in ObjIds \cup {Nil} : TimeoutFires("c1", o)
    \/ \E a \in BagToSet(activations) : ActivationDone(a)
    \/ FlushRoom /\ IntervalFires("c1")
    \/ \E f \in BagToSet(flushes) : FlushDone(f, TRUE)
    \/ \E k \in BagToSet(cleanups) : CleanupFires(k)

SpecDown == Init /\ [][DownNext]_vars

\* --- SpecUrl: start requests with and without a game in the URL ---
\* Users of chat c1 send !start with the URL of game g1 or with a URL that
\* holds no game identifier; the handler's send is delivered or throws.
UrlWorkerStep ==
    \E w \in BagToSet(workers) :
        \/ \E due \in BOOLEAN : WorkerFetched(w, TRUE, due, 0)
        \/ WorkerConfirmed(w, TRUE)

UrlNext ==
    \/ \E g \in {"g1", NoGame}, ok \in BOOLEAN : StartCmd("c1", g, "live", ok)
    \/ \E r \in BagToSet(replies) : StartReplyFailed(r)
    \/ MasterScheduler
    \/ WorkerRoom /\ DispatcherLoop
    \/ UrlWorkerStep
    \/ \E o \in ObjIds \cup {Nil} : TimeoutFires("c1", o)

SpecUrl == Init /\ [][UrlNext]_vars

\* --- SpecPost: the end of a game ---
\* One live subscription follows game g1 to its terminal occurrence; the
\* statistics, the summary and the sends of the post-game messages succeed
\* or fail, a !stop may arrive at any time.
PostWorkerStep ==
    \E w \in BagToSet(workers) :
        \/ \E due \in BOOLEAN, n \in FeedLens : WorkerFetched(w, TRUE, due, n)
        \/ WorkerConfirmed(w, TRUE)
        \/ WorkerLiveSent(w, TRUE)

PostSummarized ==
    \E w \in BagToSet(workers), statsOk \in BOOLEAN, sumOk \in BOOLEAN :
        WorkerSummarized(w, statsOk, sumOk)

PostCleanup == \E k \in BagToSet(cleanups) : CleanupFires(k)

PostNext ==
    \/ ncmd < MaxLiveCmds /\ StartCmd("c1", "g1", "live", TRUE)
    \/ StopCmd("c1")
    \/ MasterScheduler
    \/ WorkerRoom /\ DispatcherLoop
    \/ PostWorkerStep
    \/ PostSummarized
    \/ \E k \in BagToSet(cleanups), m \in PostMessages, ok \in BOOLEAN :
           PostSend(k, m, ok)
    \/ \E o \in ObjIds \cup {Nil} : TimeoutFires("c1", o)
    \/ PostCleanup

\* extractGameStats and generateGameSummary return or throw, and the 30 s
\* timer fires.
SpecPost ==
    Init /\ [][PostNext]_vars /\ WF_vars(PostSummarized) /\ WF_vars(PostCleanup)

\* --- SpecHead: activation next to other jobs ---
\* Chat c1 follows game g2 in recap mode and chat c2 in live mode, each
\* with one !start; the feed of the game stays empty.
HeadMode(c) == IF c = "c1" THEN "recap" ELSE "live"

HeadWorkerStep ==
    \E w \in BagToSet(workers) :
        \/ \E due \in BOOLEAN : WorkerFetched(w, TRUE, due, 0)
        \/ WorkerConfirmed(w, TRUE)

HeadNext ==
    \/ \E c \in Chats : activeTickers[c] = Nil /\ StartCmd(c, "g2", HeadMode(c), TRUE)
    \/ MasterScheduler
    \/ WorkerRoom /\ DispatcherLoop
    \/ HeadWorkerStep
    \/ \E c \in Chats, o \in ObjIds \cup {Nil} : TimeoutFires(c, o)
    \/ \E a \in BagToSet(activations) : ActivationDone(a)

SpecHead == Init /\ [][HeadNext]_vars

\* --- SpecToken: one chat follows one game after the other ---
\* Users of chat c1 start a game in live mode, stop, and start a game again.
TokenWorkerStep ==
    \E w \in BagToSet(workers) :
        \/ \E n \in FeedLens : WorkerFetched(w, TRUE, TRUE, n)
        \/ WorkerConfirmed(w, TRUE)
        \/ WorkerLiveSent(w, TRUE)
        \/ WorkerSummarized(w, TRUE, TRUE)

TokenNext ==
    \/ \E g \in Games : StartCmd("c1", g, "live", TRUE)
    \/ StopCmd("c1")
    \/ MasterScheduler
    \/ WorkerRoom /\ DispatcherLoop
    \/ TokenWorkerStep
    \/ \E k \in BagToSet(cleanups) : CleanupFires(k)

SpecToken == Init /\ [][TokenNext]_vars

\* --- SpecChron: the order of processing ---
\* One subscription of game g1, live or recap, whose polls may overlap.
ChronWorkerStep ==
    \E w \in BagToSet(workers) :
        \/ \E n \in FeedLens : WorkerFetched(w, TRUE, TRUE, n)
        \/ WorkerConfirmed(w, TRUE)
        \/ WorkerLiveSent(w, TRUE)
        \/ WorkerFlushed(w, TRUE)
        \/ WorkerSummarized(w, TRUE, TRUE)

ChronNext ==
    \/ ncmd < MaxLiveCmds /\ \E m \in Modes : StartCmd("c1", "g1", m, TRUE)
    \/ MasterScheduler
    \/ WorkerRoom /\ DispatcherLoop
    \/ ChronWorkerStep
    \/ \E a \in BagToSet(activations) : ActivationDone(a)
    \/ FlushRoom /\ IntervalFires("c1")
    \/ \E f \in BagToSet(flushes) : FlushDone(f, TRUE)
    \/ \E k \in BagToSet(cleanups) : CleanupFires(k)

SpecChron == Init /\ [][ChronNext]_vars

\* --- SpecSeen: saveSeenTickers and loadSeenTickers on any store ---
\* The store holds, for any of the chats, a ticker with any set of seen
\* occurrence ids; the seen file is written from the store, and a new
\* process reads it into its empty store.
SeenStore(present, seen) ==
    LET ord == SelectSeq(ChatSeq, LAMBDA c : c \in present)
        pos(c) == CHOOSE i \in 1..Len(ord) : ord[i] = c
    IN [at |-> [c \in Chats |-> IF c \in present THEN pos(c) ELSE Nil],
        ord |-> ord,
        T |-> [o \in ObjIds |->
                  IF o <= Len(ord)
                  THEN [NewTicker(ord[o]) EXCEPT !.seen = seen[ord[o]]]
                  ELSE FreeObj]]

SeenInit ==
    /\ \E present \in SUBSET Chats, seen \in [Chats -> SUBSET EventIds] :
           /\ \A c \in Chats \ present : seen[c] = {}
           /\ activeTickers = SeenStore(present, seen).at
           /\ mapOrder = SeenStore(present, seen).ord
           /\ tickers = SeenStore(present, seen).T
    /\ jobQueue = <<>>
    /\ activeWorkers = 0
    /\ lastPolledIndex = -1
    /\ workers = EmptyBag
    /\ replies = EmptyBag
    /\ autos = EmptyBag
    /\ activations = EmptyBag
    /\ flushes = EmptyBag
    /\ cleanups = EmptyBag
    /\ timeouts = [c \in Chats |-> 0]
    /\ intervals = [c \in Chats |-> 0]
    /\ published = [g \in Games |-> 0]
    /\ seenFile = [c \in Chats |-> <<FALSE, <<>>>>]
    /\ scheduleFile = [c \in Chats |-> NoEntry]
    /\ ncmd = 0
    /\ stopped = [c \in Chats |-> "no"]
    /\ lastCmd = [cmd |-> "none", chatId |-> "none", late |-> {}]
    /\ waited = [c \in Chats |-> 0]

\* saveSeenTickers(activeTickers, seenFilePath) (utils.js 27-39)
SaveSeenTickers ==
    /\ UNCHANGED <<published, ncmd, stopped, lastCmd>>
    /\ Commit([Cur EXCEPT !.seenf = SeenSnapshot(activeTickers, tickers)])

SeenNext ==
    \/ SaveSeenTickers
    \/ Restart({})

SpecSeen == SeenInit /\ [][SeenNext]_vars

(******************************** claims ***********************************)
\* The poll jobs of chat c a worker is executing.
PollsInFlight(c) ==
    LET ws == {w \in BagToSet(workers) : w.type = "poll" /\ w.chatId = c}
    IN BagCardinality([w \in ws |-> CopiesIn(w, workers)])
\* The poll jobs of chat c waiting in the queue.
PollsQueued(c) ==
    Cardinality({i \in 1..Len(jobQueue) : jobQueue[i].type = "poll" /\ jobQueue[i].chatId = c})

\* C1: in every reachable state the number of jobs executing in runWorker
\* (dispatched and not yet completed) is at most MAX_WORKERS, stale and
\* failing jobs included.
WorkerBound ==
    /\ BagCardinality(workers) <= MAX_WORKERS
    /\ activeWorkers = BagCardinality(workers)

\* The pool is full while a further job waits in the queue.
WorkerBoundWitness ==
    /\ BagCardinality(workers) = MAX_WORKERS
    /\ jobQueue # <<>>

\* C2: for a subscription in live mode client.sendMessage is invoked at most
\* once per occurrence identifier, across any sequence of poll jobs.
LiveAtMostOnce ==
    \A o \in ObjIds : \A e \in EventIds : Count(tickers[o].sentLive, e) <= 1

\* Two poll jobs of one subscription are in flight; the second one fetched a
\* payload in which occurrence 1, sent by the first, reappears, and went on
\* to occurrence 2.
LiveAtMostOnceWitness ==
    \E w1, w2 \in BagToSet(workers) :
        /\ w1.obj = w2.obj
        /\ w1.pc = "liveSend" /\ w1.i = 1
        /\ w2.pc = "liveSend" /\ w2.i = 2
        /\ tickers[w1.obj].sentLive = <<1, 2>>

\* A flush awaiting delivery (timer-triggered or critical) that captured
\* occurrence e of object o.
InFlush(o, e) ==
    \/ \E f \in BagToSet(flushes) : f.obj = o /\ e \in SeqToSet(f.evs)
    \/ \E w \in BagToSet(workers) :
           w.pc = "critFlush" /\ w.fobj = o /\ e \in SeqToSet(w.evs)

\* C3: in recap mode, with every send succeeding, each occurrence appended to
\* recapEvents is included in exactly one flushed recap message: it is never
\* delivered twice, and it is delivered, still buffered or part of a flush
\* awaiting delivery.
RecapExactlyOnce ==
    \A o \in ObjIds : \A e \in tickers[o].pushed :
        /\ Count(tickers[o].recapSent, e) <= 1
        /\ \/ Count(tickers[o].recapSent, e) = 1
           \/ e \in SeqToSet(tickers[o].recapEvents)
           \/ InFlush(o, e)

\* The lifecycle flags of ticker t that are set.
Phases(t) ==
    {f \in {"isScheduling", "isScheduled", "isPolling"} : t[f]}

\* C4: in every reachable state at most one of isScheduling, isScheduled and
\* isPolling is true for every subscription.
AtMostOnePhase ==
    \A c \in Chats :
        activeTickers[c] # Nil => Cardinality(Phases(tickers[activeTickers[c]])) <= 1

\* The seen-set of chat c (empty without a subscription).
SeenOf(at, T, c) == IF at[c] = Nil THEN {} ELSE T[at[c]].seen
\* The step is the command cmd of chat c.
IsCmd(c, cmds) ==
    ncmd' = ncmd + 1 /\ lastCmd'.chatId = c /\ lastCmd'.cmd \in cmds

\* C5 (as stated): an occurrence identifier once in a chat's seen-set stays in
\* it through every step but an explicit reset command.
SeenOnlyResetRemoves ==
    [][\A c \in Chats :
          ~IsCmd(c, {"reset"}) =>
              SeenOf(activeTickers, tickers, c) \subseteq SeenOf(activeTickers', tickers', c)]_vars

\* C5 (amended): an occurrence identifier once in a chat's seen-set stays in
\* it for as long as the chat's subscription stays in the store.
SeenGrowsWhileStored ==
    [][\A c \in Chats :
          activeTickers[c] # Nil /\ activeTickers'[c] = activeTickers[c] =>
              tickers[activeTickers[c]].seen \subseteq tickers'[activeTickers[c]].seen]_vars

\* A stopped subscription still holds the occurrences of two polls.
SeenGrowsWitness ==
    \E c \in Chats :
        /\ stopped[c] = "stop"
        /\ activeTickers[c] # Nil
        /\ {1, 2} \subseteq tickers[activeTickers[c]].seen

\* C6: for every chat the poll jobs waiting in the queue plus those being
\* executed by a worker are at most one.
OnePollJobPerChat ==
    \A c \in Chats : PollsQueued(c) + PollsInFlight(c) <= 1

\* C7: with N polling subscriptions every one of them has a poll job queued
\* within N consecutive scheduler passes: none goes N passes without.
FairWindow ==
    \A c \in Chats :
        c \in SeqToSet(PollingTickers(Cur)) => waited[c] < Len(PollingTickers(Cur))

\* Two subscriptions are polling and one of them was passed over once.
FairWindowWitness ==
    /\ Len(PollingTickers(Cur)) = 2
    /\ \E c \in Chats : waited[c] = 1

\* Chat c has a subscription that is scheduling, scheduled or polling.
Busy(c) ==
    activeTickers[c] # Nil /\ Phases(tickers[activeTickers[c]]) # {}

\* C8: a start or autoschedule command for a chat whose subscription is
\* scheduling, scheduled or polling enqueues no job and changes no
\* subscription state.
StartRejectedWhileBusy ==
    [][\A c \in Chats :
          IsCmd(c, {"start", "autoschedule"}) /\ Busy(c) =>
              /\ jobQueue' = jobQueue
              /\ tickers' = tickers
              /\ activeTickers' = activeTickers]_vars

\* C9: immediately after a stop or reset command for a chat the queue holds
\* no job of that chat.
NoJobAfterStop ==
    [][\A c \in Chats :
          IsCmd(c, {"stop", "reset"}) =>
              \A i \in 1..Len(jobQueue') : jobQueue'[i].chatId # c]_vars

\* C10: after a stop or reset command the chat's subscription is neither
\* scheduled nor polling, and after a reset there is none, until the next
\* start or autoschedule command.
StaysStopped ==
    \A c \in Chats :
        /\ stopped[c] # "no" /\ activeTickers[c] # Nil =>
               /\ ~tickers[activeTickers[c]].isScheduled
               /\ ~tickers[activeTickers[c]].isPolling
        /\ stopped[c] = "reset" => activeTickers[c] = Nil

\* C11: a job whose subscription was stopped or reset after the job was
\* enqueued, or is no longer in the state matching the job's type, is
\* discarded when a worker picks it up: nothing is fetched or sent, no
\* subscription or persisted state changes, the job is not enqueued again
\* and the worker slot is released.  (A schedule job is only enqueued by a
\* start command, so one that is queued while the last command of its chat
\* was a stop or reset was enqueued before that command.)
StaleJobDiscarded ==
    [][(/\ DispatcherLoop
        /\ LET job == Head(jobQueue) IN
             \/ IsStale(Cur, job)
             \/ job.type = "schedule" /\ stopped[job.chatId] # "no")
         => /\ workers' = workers
            /\ activeWorkers' = activeWorkers
            /\ jobQueue' = Tail(jobQueue)
            /\ tickers' = tickers
            /\ activeTickers' = activeTickers
            /\ seenFile' = seenFile
            /\ scheduleFile' = scheduleFile]_vars


\* The step is a restart of the process.
IsRestart == ncmd' = ncmd + 1 /\ lastCmd'.cmd = "restart"

\* C12: at startup a pending-schedule entry whose start time has passed is
\* removed from the pending-schedule file and causes no activation: no
\* deferred timer is armed and the subscription is not polling.
LateEntryDiscarded ==
    [][\A c \in Chats :
          IsRestart /\ c \in lastCmd'.late =>
              /\ scheduleFile'[c] = NoEntry
              /\ timeouts'[c] = 0
              /\ activeTickers'[c] # Nil =>
                     /\ ~tickers'[activeTickers'[c]].isPolling
                     /\ ~tickers'[activeTickers'[c]].isScheduled]_vars


CritFlushBegun(w) ==
    w.pc = "critFlush" /\ CopiesIn(w, workers') > CopiesIn(w, workers)

\* C14: a critical-triggered recap flush (caused by a StartPeriod or
\* StopPeriod occurrence) sets the subscription's recapMinuteCounter to the
\* in-game minute of that triggering occurrence.
CriticalFlushSetsMinute ==
    [][\A w \in BagToSet(workers') :
          CritFlushBegun(w) =>
              tickers'[w.fobj].recapMinuteCounter = EvMinute(ChronEvents(w)[w.i])]_vars


\* C15: a timer-triggered recap flush of a polling subscription with a
\* non-empty buffer advances recapMinuteCounter by exactly
\* RECAP_INTERVAL_MINUTES and starts one send; a timer-triggered flush with an
\* empty buffer leaves the cursor and the buffer unchanged and sends nothing.
TimerFlushAdvances ==
    [][\A c \in Chats :
          IntervalFires(c) /\ activeTickers[c] # Nil =>
              LET o == activeTickers[c]
                  t == tickers[o]
              IN /\ t.isPolling /\ t.recapEvents # <<>> =>
                       /\ tickers'[o].recapMinuteCounter =
                              t.recapMinuteCounter + RECAP_INTERVAL_MINUTES
                       /\ BagCardinality(flushes') = BagCardinality(flushes) + 1
                 /\ t.recapEvents = <<>> =>
                       /\ tickers'[o].recapMinuteCounter = t.recapMinuteCounter
                       /\ tickers'[o].recapEvents = <<>>
                       /\ flushes' = flushes]_vars

\* A timer-triggered flush of a buffered occurrence is awaiting delivery and
\* the cursor stands one interval after the start of the game.
TimerFlushAdvancesWitness ==
    \E f \in BagToSet(flushes) :
        /\ f.evs # <<>>
        /\ tickers[f.obj].isPolling
        /\ tickers[f.obj].recapMinuteCounter = RECAP_INTERVAL_MINUTES


\* The occurrences a worker's loop reaches after the one it stands at.
LaterEvents(w) ==
    {ChronEvents(w)[j] : j \in (w.i + 1)..Len(ChronEvents(w))}

\* A step in which the send of a recap flush returns: nothing that was
\* buffered before the return is buffered after it (the worker's loop goes on
\* in the same step and may buffer later occurrences).
SendReturnClears ==
    /\ \A f \in BagToSet(flushes), ok \in BOOLEAN :
           FlushDone(f, ok) => tickers'[f.obj].recapEvents = <<>>
    /\ \A w \in BagToSet(workers), ok \in BOOLEAN :
           WorkerFlushed(w, ok) =>
               SeqToSet(tickers'[w.fobj].recapEvents) \subseteq LaterEvents(w)

SkippedFlushEmpty(c) ==
    LET r == SendRecapMessage(Cur, c, FALSE)
    IN intervals[c] > 0 /\ activeTickers[c] # Nil /\ r.out = "return" =>
           r.st.T[activeTickers[c]].recapEvents = <<>>

TerminalProcessed(c, o) ==
    /\ activeTickers[c] = o
    /\ \/ \E w \in BagToSet(workers) : w.pc = "summary" /\ w.chatId = c /\ w.obj = o
       \/ \E k \in BagToSet(cleanups) : k.chatId = c /\ k.obj = o

\* C17: after a StopPeriod occurrence with in-game minute greater than 30 has
\* been processed, the subscription is no longer polling, no periodic recap
\* flush timer is armed for it, no job for that chat remains in the queue, and
\* masterScheduler enqueues no further poll job for it.
TerminalStopsAll ==
    \A c \in Chats, o \in ObjIds :
        TerminalProcessed(c, o) =>
            /\ ~tickers[o].isPolling
            /\ intervals[c] = 0
            /\ FindIndex(jobQueue, c) = 0
            /\ FindIndex(MasterSchedulerState(Cur).Q, c) = 0



\* The autoScheduleNextGame calls this step has begun.
NewAutos ==
    {a \in BagToSet(autos') : CopiesIn(a, autos') > CopiesIn(a, autos)}

\* Cleanup timer k begins exactly one next-game resolution, for the game
\* whose end armed it and excluding that game.
OneResolution(k) ==
    /\ BagCardinality(autos') = BagCardinality(autos) + 1
    /\ \E a \in NewAutos : a.concluded = k.gameId /\ a.finished = k.gameId

\* The resolution begun at the end of a game does not schedule that game.
ResolvesAnother ==
    \A a \in BagToSet(autos), l \in Listings :
        AutoFetched(a, l) /\ a.concluded # NoGame =>
            /\ NextGame(l, a.finished) # a.concluded
            /\ activeTickers'[a.chatId] # Nil =>
                   tickers'[activeTickers'[a.chatId]].gameId # a.concluded

\* C18: when a terminal occurrence is detected for a subscription with
\* isAutoSchedule set, exactly one next-game resolution attempt
\* (autoScheduleNextGame) is made for that game, and the game it schedules
\* never has the identifier of the just-concluded game.
AutoResolvesOnce ==
    [][/\ \A k \in BagToSet(cleanups) :
              CleanupFires(k) /\ k.auto => OneResolution(k)
       /\ ResolvesAnother]_vars


\* A step in which the schedule job of worker w succeeds for a game whose
\* start minus the lead is still in the future (polling.js 474-488): after
\* the notice of a manual start, or right after the fetch of an auto-scheduled
\* one.
ScheduledForLater(w) ==
    /\ w.type = "schedule"
    /\ \/ w.pc = "confirm" /\ ~w.due /\ WorkerConfirmed(w, TRUE)
       \/ /\ w.pc = "fetch" /\ tickers[w.obj].isAutoSchedule
          /\ \E n \in FeedLens : WorkerFetched(w, TRUE, FALSE, n)

StopCancelsSchedule ==
    [][\A c \in Chats :
          /\ StopCmd(c)
          /\ activeTickers[c] # Nil
          /\ tickers[activeTickers[c]].isScheduled
          /\ tickers[activeTickers[c]].scheduleTimeout = "armed"
          => /\ timeouts'[c] = 0
             /\ tickers'[activeTickers[c]].scheduleTimeout # "armed"
             /\ scheduleFile'[c] = NoEntry]_vars


\* C21: the gameId of a subscription never changes except through a full
\* reset: no start, autoschedule, stop, schedule-job, poll-job or cleanup
\* step changes the gameId of a subscription entry that stays in the store.
GameIdFixed ==
    [][\A c \in Chats :
          LET o == activeTickers[c] IN
          /\ ~IsRestart
          /\ o # Nil /\ activeTickers'[c] = o
          /\ tickers[o].gameId # NoGame
          => tickers'[o].gameId = tickers[o].gameId]_vars


\* A step in which a failed schedule job of worker w completes: the failure
\* notice has returned or thrown, or (auto-schedule) the fetch has failed.
FailedScheduleEnds(w) ==
    /\ w.type = "schedule"
    /\ \/ \E ok \in BOOLEAN : WorkerNotified(w, ok)
       \/ /\ w.pc = "fetch" /\ tickers[w.obj].isAutoSchedule
          /\ \E due \in BOOLEAN, n \in FeedLens : WorkerFetched(w, FALSE, due, n)

\* C22: when a schedule job fails (network failure, timeout or structurally
\* invalid payload), then after the job completes no subscription exists for
\* that chat in the store and no pending-schedule entry is persisted for it,
\* also when sending the failure notification itself fails.
FailedScheduleRemoved ==
    [][\A w \in BagToSet(workers) :
          FailedScheduleEnds(w) =>
              /\ activeTickers'[w.chatId] = Nil
              /\ scheduleFile'[w.chatId] = NoEntry]_vars


\* The fields of a ticker the claim about failed polls names.
PollView(t) ==
    <<t.seen, t.lastUpdatedAt, t.recapEvents, t.recapMinuteCounter,
      t.isScheduling, t.isScheduled, t.isPolling, t.gameId, t.mode>>

FailedDeliveryEnds(w) ==
    /\ w.type = "poll"
    /\ \/ \E ok \in BOOLEAN : (w.failed \/ ~ok) /\ WorkerLiveSent(w, ok)
       \/ w.failed /\ WorkerSummarized(w, TRUE, TRUE)
    /\ BagCardinality(workers') < BagCardinality(workers)

\* C24: a sendMessage failure while delivering one occurrence in live mode
\* does not abort processing: every later unseen occurrence of the same
\* fetched payload is still marked seen and its delivery attempted, and the
\* updated seen-set is persisted afterwards.
SendFailureNotFatal ==
    [][\A w \in BagToSet(workers) :
          FailedDeliveryEnds(w) /\ activeTickers'[w.chatId] = w.obj =>
              LET t == tickers'[w.obj] IN
              /\ SeqToSet(ChronEvents(w)) \subseteq t.seen
              /\ SeqToSet(ChronEvents(w)) \subseteq SeqToSet(t.sentLive)
              /\ seenFile'[w.chatId] = <<TRUE, SpreadArray(t.seen)>>]_vars

\* A poll job one of whose sends has thrown has gone on to the end of the
\* feed: every occurrence was attempted and the job awaits the summary.
SendFailureWitness ==
    \E w \in BagToSet(workers) :
        /\ w.failed /\ w.pc = "summary"
        /\ activeTickers[w.chatId] = w.obj
        /\ tickers[w.obj].sentLive = Feed("g1")
        /\ tickers[w.obj].seen = SeqToSet(Feed("g1"))


\* The step is the shutdown signal.
IsSigint == ncmd' = ncmd + 1 /\ lastCmd'.cmd = "sigint"

\* C25: on the shutdown signal (SIGINT) the seen-sets of all subscriptions
\* are written to the seen file before the process terminates, in every
\* reachable state, including states in which a subscription has an armed
\* recap flush timer.
SigintSavesSeen ==
    [][IsSigint => seenFile' = SeenSnapshot(activeTickers, tickers)]_vars


\* The store, the subscriptions and the queue are as before the step.
NothingScheduled ==
    /\ activeTickers' = activeTickers
    /\ tickers' = tickers
    /\ jobQueue' = jobQueue

\* C26: a start request whose URL yields no game identifier is only reported
\* to the initiator: it creates no subscription, changes no field of an
\* existing subscription for that chat, and enqueues no job.  The request is
\* handled in the step of the command and, when its report throws, in the
\* step of the handler's catch block.
BadUrlOnlyReported ==
    [][/\ \A c \in Chats, mode \in Modes, ok \in BOOLEAN :
              StartCmd(c, NoGame, mode, ok) => NothingScheduled
       /\ \A r \in BagToSet(replies) :
              r.gameId = NoGame /\ StartReplyFailed(r) => NothingScheduled]_vars


\* C27: after a reset command for a chat completes, the store has no
\* subscription for that chat, and neither the persisted seen file nor the
\* persisted pending-schedule file contains an entry for that chat.
ResetPurges ==
    [][\A c \in Chats :
          IsCmd(c, {"reset"}) =>
              /\ activeTickers'[c] = Nil
              /\ ~seenFile'[c][1]
              /\ scheduleFile'[c] = NoEntry]_vars

\* A chat whose game has been polled was reset: nothing of it is stored.
ResetPurgesWitness ==
    /\ lastCmd = [cmd |-> "reset", chatId |-> "c1", late |-> {}]
    /\ published["g1"] > 0
    /\ activeTickers["c1"] = Nil
    /\ ~seenFile["c1"][1]
    /\ scheduleFile["c1"] = NoEntry


\* C28: after a restart every subscription that was polling, or scheduled
\* with a start still ahead, is in the same lifecycle state as before the
\* restart, with the seen-set the seen file held for it.
RestartResumes ==
    [][\A c \in Chats :
          (/\ IsRestart
           /\ activeTickers[c] # Nil
           /\ \/ tickers[activeTickers[c]].isPolling
              \/ /\ tickers[activeTickers[c]].isScheduled
                 /\ c \notin lastCmd'.late) =>
              /\ activeTickers'[c] # Nil
              /\ tickers'[activeTickers'[c]].isPolling
                     = tickers[activeTickers[c]].isPolling
              /\ tickers'[activeTickers'[c]].isScheduled
                     = tickers[activeTickers[c]].isScheduled
              /\ seenFile[c][1] =>
                     tickers'[activeTickers'[c]].seen = NewSet(seenFile[c][2])]_vars


\* The subscription of chat c was made by !autoschedule, the last command of
\* the chat is a !stop, a !stop has cleared its isAutoSchedule flag and the
\* subscription is at rest: not being scheduled, not scheduled, not polling.
StoppedAutoTicker(c) ==
    /\ stopped[c] = "stop"
    /\ activeTickers[c] # Nil
    /\ tickers[activeTickers[c]].teamPageUrl = TeamUrl
    /\ ~tickers[activeTickers[c]].isAutoSchedule
    /\ ~tickers[activeTickers[c]].isScheduling
    /\ ~tickers[activeTickers[c]].isScheduled
    /\ ~tickers[activeTickers[c]].isPolling

\* C29: after a stop command for a chat whose subscription is an
\* auto-schedule ticker, no next-game resolution attempt is begun for the
\* chat and no returning resolution schedules a further game for it.
StopEndsAutoSchedule ==
    [][\A c \in Chats :
          StoppedAutoTicker(c) /\ stopped'[c] = "stop" =>
              /\ \A a \in NewAutos : a.chatId # c
              /\ \A a \in BagToSet(autos), l \in Listings :
                     AutoFetched(a, l) /\ a.chatId = c =>
                         NextGame(l, a.finished) = NoGame]_vars


\* C30: saveSeenTickers followed by loadSeenTickers into an empty store
\* reproduces the store's seen-sets: a new process that reads the file the
\* store was saved to has an entry for exactly the same chats, each with
\* exactly the same members.
SaveLoadRoundTrip ==
    [][IsRestart /\ seenFile = SeenSnapshot(activeTickers, tickers) =>
          \A c \in Chats :
              /\ activeTickers'[c] # Nil <=> activeTickers[c] # Nil
              /\ SeenOf(activeTickers', tickers', c)
                     = SeenOf(activeTickers, tickers, c)]_vars

\* A store with two chats was saved and read back by a new process.
SaveLoadRoundTripWitness ==
    /\ lastCmd.cmd = "restart"
    /\ seenFile = [c \in Chats |-> IF c = "c1" THEN <<TRUE, <<1, 2, 4>>>>
                                   ELSE <<TRUE, <<>>>>]
    /\ SeenOf(activeTickers, tickers, "c1") = {1, 2, 4}
    /\ activeTickers["c2"] # Nil
    /\ SeenOf(activeTickers, tickers, "c2") = {}


\* A worker of chat c has detected the terminal occurrence of a subscription
\* without auto-schedule.
TerminalDetected(c) ==
    \E w \in BagToSet(workers) : w.chatId = c /\ w.pc = "summary" /\ ~w.auto

\* C31: after a terminal occurrence is detected (auto-schedule not set) the
\* subscription is eventually removed from the store, whatever fails after
\* the game; the closing message and the cleanup are armed whether or not
\* the statistics and the summary could be made, each of these two is armed
\* whenever it could be made, and the outcome of a send touches no other
\* message and not the cleanup.
PostGameCompletes ==
    /\ \A c \in Chats : TerminalDetected(c) ~> activeTickers[c] = Nil
    /\ [][\A w \in BagToSet(workers), statsOk \in BOOLEAN, sumOk \in BOOLEAN :
             WorkerSummarized(w, statsOk, sumOk) =>
                 \E k \in BagToSet(cleanups') :
                     /\ CopiesIn(k, cleanups') > CopiesIn(k, cleanups)
                     /\ k.chatId = w.chatId /\ k.obj = w.obj
                     /\ k.final = "armed"
                     /\ k.stats = "armed" <=> statsOk
                     /\ k.summary = "armed" <=> sumOk]_vars
    /\ [][\A k \in BagToSet(cleanups), m \in PostMessages, ok \in BOOLEAN :
             PostSend(k, m, ok) =>
                 \E k2 \in BagToSet(cleanups') :
                     /\ BagCardinality(cleanups') = BagCardinality(cleanups)
                     /\ \A x \in (DOMAIN k) \ {m} : k2[x] = k[x]
                     /\ activeTickers' = activeTickers]_vars

\* Neither the statistics nor the summary could be made and the send of the
\* closing message has thrown: the cleanup timer of the game is armed.
PostGameCompletesWitness ==
    \E k \in BagToSet(cleanups) :
        /\ k.chatId = "c1" /\ ~k.auto
        /\ k.stats = "none" /\ k.summary = "none" /\ k.final = "failed"
        /\ activeTickers["c1"] # Nil


\* The step completes the activation of chat c: beginActualPolling has
\* marked a live subscription polling, or has resumed after the legend of a
\* recap subscription.
ActivationCompletes(c) ==
    \/ /\ activeTickers[c] # Nil /\ activeTickers'[c] = activeTickers[c]
       /\ ~tickers[activeTickers[c]].isPolling
       /\ tickers'[activeTickers[c]].isPolling
       /\ tickers[activeTickers[c]].mode = "live"
    \/ \E a \in BagToSet(activations) : a.chatId = c /\ ActivationDone(a)

\* C32: activation marks the subscription polling and places its poll job
\* at the head of the queue, ahead of every job queued before.
ActivationAtHead ==
    [][\A c \in Chats :
          ActivationCompletes(c) =>
              /\ jobQueue' # <<>>
              /\ Head(jobQueue').chatId = c
              /\ Head(jobQueue').type = "poll"]_vars


\* a is b with some elements left out
RECURSIVE IsSubSeq(_, _)
IsSubSeq(a, b) ==
    IF a = <<>> THEN TRUE
    ELSE IF b = <<>> THEN FALSE
    ELSE IF Head(a) = Head(b) THEN IsSubSeq(Tail(a), Tail(b))
    ELSE IsSubSeq(a, Tail(b))

\* The jobs of the queue that the step keeps stay in their order, between
\* what the step puts at the head and what it appends.
QueueOrderKept ==
    \E h \in 0..1, t \in 0..1 :
        /\ h + t <= Len(jobQueue')
        /\ IsSubSeq(SubSeq(jobQueue', h + 1, Len(jobQueue') - t), jobQueue)

\* The dispatcher takes the job at the head, whatever the workers in flight
\* are doing.
DispatchTakesHead ==
    DispatcherLoop =>
        /\ jobQueue' = Tail(jobQueue)
        /\ \/ IsStale(Cur, Head(jobQueue)) /\ workers' = workers
           \/ \E w \in BagToSet(workers') :
                 /\ CopiesIn(w, workers') = CopiesIn(w, workers) + 1
                 /\ w.pc = "fetch" /\ w.chatId = Head(jobQueue).chatId
                 /\ w.type = Head(jobQueue).type

\* C33: with the dispatcher ticking and fewer than MAX_WORKERS workers
\* blocked forever, the queue is served: the dispatcher launches jobs again
\* and again unless the queue stays empty; it takes the head of the queue,
\* no step reorders the waiting jobs, and it can launch a job whenever one
\* waits and a slot is free, however long the workers in flight take.
QueueServed ==
    /\ []<><<DispatcherLoop>>_vars \/ <>[](jobQueue = <<>>)
    /\ [][QueueOrderKept /\ DispatchTakesHead]_vars
    /\ [](CanDispatch(Cur) => ENABLED DispatcherLoop)

\* Four workers are in flight, a job waits, and the dispatcher has a slot.
QueueServedWitness ==
    /\ BagCardinality(workers) = MAX_WORKERS - 1
    /\ \A w \in BagToSet(workers) : w.pc = "fetch"
    /\ Len(jobQueue) >= 1
    /\ ENABLED DispatcherLoop


\* The occurrences of the payload of n occurrences that ticker o has not seen
UnseenIn(o, g, n) == {e \in SeqToSet(Payload(g, n)) : e \notin tickers[o].seen}

\* The poll of worker w is a no-op (the worker's object is compared as long
\* as something still refers to it).
PollNoOp(w) ==
    /\ w.obj \in Live' => tickers'[w.obj] = tickers[w.obj]
    /\ seenFile' = seenFile /\ scheduleFile' = scheduleFile
    /\ jobQueue' = jobQueue
    /\ workers' = workers (-) One(w)

\* The payload of worker w went to processEvents: its first unseen
\* occurrence, if there is one, is marked seen.
PollProcessed(w, n) ==
    UnseenIn(w.obj, w.gameId, n) # {} =>
        /\ w.obj \in Live'
        /\ tickers'[w.obj].seen # tickers[w.obj].seen

\* C34: a successful poll whose version token equals the subscription's
\* last-seen token changes nothing and sends nothing; a poll whose token
\* differs from the last-seen token hands the payload to processEvents.
TokenDecides ==
    [][\A w \in BagToSet(workers), n \in FeedLens :
          w.type = "poll" /\ WorkerFetched(w, TRUE, TRUE, n) =>
              IF UpdatedAt(n) = tickers[w.obj].lastUpdatedAt
              THEN PollNoOp(w)
              ELSE PollProcessed(w, n)]_vars


\* Occurrence a precedes occurrence b in a payload of some game.
Precedes(a, b) ==
    \E g \in Games : \E i, j \in 1..Len(Feed(g)) :
        i < j /\ Feed(g)[i] = a /\ Feed(g)[j] = b

\* No element of s comes before an occurrence that precedes it.
InChronOrder(s) ==
    \A i, j \in 1..Len(s) : i < j => ~Precedes(s[j], s[i])

\* C35: the unseen occurrences of a payload are marked seen and delivered
\* (live) or buffered (recap) oldest first: the live sends and the recap
\* buffer of a subscription never hold an occurrence ahead of one that
\* precedes it in the payload, and when a worker handles an occurrence every
\* older occurrence of its payload is marked seen.
ChronologicalOrder ==
    /\ \A o \in ObjIds :
          /\ InChronOrder(tickers[o].sentLive)
          /\ InChronOrder(tickers[o].recapEvents)
    /\ \A w \in BagToSet(workers) :
          w.pc \in {"liveSend", "critFlush", "summary"} =>
              \A i \in 1..w.i :
                  Reverse(Payload(w.gameId, w.n))[i] \in tickers[w.obj].seen

\* Two overlapping polls of a live subscription have sent three occurrences.
ChronologicalOrderWitness ==
    /\ \E w1, w2 \in BagToSet(workers) :
          /\ w1.pc = "liveSend" /\ w2.pc = "liveSend" /\ w1.n < w2.n
          /\ w1.obj = w2.obj
          /\ tickers[w1.obj].sentLive = <<1, 2, 3>>


\* C36: when the send of a schedule job's confirmation (the scheduled or
\* the started-immediately notice) throws, scheduling goes on: the
\* subscription stays in the store and becomes scheduled or polling.
ConfirmFailureHarmless ==
    [][\A w \in BagToSet(workers) :
          WorkerConfirmed(w, FALSE) /\ activeTickers[w.chatId] = w.obj =>
              /\ activeTickers'[w.chatId] = w.obj
              /\ \/ tickers'[w.obj].isScheduled
                 \/ tickers'[w.obj].isPolling]_vars


\* C37: in every reachable state no chat is both polling and present in the
\* pending-schedule file.
PollingNotPending ==
    \A c \in Chats :
        activeTickers[c] # Nil /\ tickers[activeTickers[c]].isPolling =>
            scheduleFile[c] = NoEntry


\* Poll worker w was awaiting its fetch when the last command of its chat, a
\* !stop or !reset, ran: the subscription it was dequeued for polls no more.
OutlivedCommand(w) ==
    /\ w.type = "poll" /\ w.pc = "fetch"
    /\ stopped[w.chatId] # "no"
    /\ ~tickers[w.obj].isPolling

\* C38: once a stop or reset command for a chat has completed, a poll job
\* that was awaiting its fetch when the command ran sends no occurrence
\* message and no recap message to the chat.
NoSendAfterCommand ==
    [][\A w \in BagToSet(workers), n \in FeedLens :
          OutlivedCommand(w) /\ WorkerFetched(w, TRUE, TRUE, n) =>
              /\ w.obj \in Live' =>
                     tickers'[w.obj].sentLive = tickers[w.obj].sentLive
              /\ \A v \in BagToSet(workers') :
                     CopiesIn(v, workers') > CopiesIn(v, workers) =>
                         v.pc \notin {"liveSend", "critFlush"}]_vars


\* C39: at every time at most one recap flush timer is armed per
\* subscription, and none is armed for a chat whose last command is a stop
\* or a reset.
OneFlushTimer ==
    \A c \in Chats :
        /\ intervals[c] <= 1
        /\ stopped[c] # "no" => intervals[c] = 0


\* Cleanup timer k belongs to a game that has ended, and the chat's second
\* command, a !start of another game sent after that end, has created a
\* subscription whose schedule job waits in the queue.
StartedInGrace(k) ==
    LET c == k.chatId IN
    /\ ncmd = 2 /\ lastCmd.cmd = "start" /\ lastCmd.chatId = c
    /\ activeTickers[c] # Nil
    /\ tickers[activeTickers[c]].gameId # k.gameId
    /\ tickers[activeTickers[c]].isScheduling
    /\ \E i \in 1..Len(jobQueue) :
          /\ jobQueue[i].type = "schedule" /\ jobQueue[i].chatId = c
          /\ jobQueue[i].gameId = tickers[activeTickers[c]].gameId

\* C40: the cleanup timer armed at a game's terminal occurrence does not
\* delete a subscription that a start command has created for the chat
\* during the grace period; the queued schedule job of that subscription
\* stays valid.
CleanupSparesNewTicker ==
    [][\A k \in BagToSet(cleanups) :
          CleanupFires(k) /\ StartedInGrace(k) =>
              /\ activeTickers'[k.chatId] = activeTickers[k.chatId]
              /\ tickers'[activeTickers'[k.chatId]].isScheduling
              /\ jobQueue' = jobQueue]_vars

====
